---- MODULE Spec2Model ----
(***************************************************************************)
(* FHIRguard: the clinical resource analysis pipeline of celery_worker.py  *)
(* (process_uploaded_file_task and its helpers) and the profile-validation *)
(* call of services/validation_service.py.                                 *)
(*                                                                         *)
(* Conventions of the model                                                *)
(*   - a Python str is a sequence of one-character strings, so that        *)
(*     str.replace and str.strip are computed character by character;      *)
(*   - an optional number (Python None or a number) is a sequence of       *)
(*     length 0 (None) or 1 (<<x>>);                                       *)
(*   - readings are integers; a temperature is held in tenths of a degree  *)
(*     (35.0 is 350, 39.1 is 391), the other readings in their own unit.   *)
(***************************************************************************)
EXTENDS Integers, Sequences, FiniteSets, TLC

VARIABLES
    pc,                 \* position of the running operation
    content,            \* the upload: content_bytes, filename, content_type
    validation_service, \* the module-level service handle (or None)
    master_bundle,      \* the canonical collection
    final_reports,      \* the report list being assembled
    patients_map,       \* normalized id -> patient record, or unbound
    progress,           \* the events pushed through update_state
    response,           \* what the profile-validation collaborator does when called
    result,             \* how the task ended: nothing yet, returned, raised
    predictions,        \* the calls of anomaly_model.predict: vector and verdict
    ref,                \* normalize_id: the reference given
    once,               \* normalize_id(ref)
    twice,              \* normalize_id(normalize_id(ref))
    vitals,             \* calculate_news2 / check_clinical_rules: the snapshot
    news,               \* calculate_news2(vitals)
    issues              \* the list returned by check_clinical_rules(patient,
                        \* vitals) or by _parse_validator_output(output_json)

taskVars == <<content, validation_service, master_bundle, final_reports,
              patients_map, progress, response, result, predictions>>
normVars == <<ref, once, twice>>
newsVars == <<vitals, news, issues>>
vars == <<pc, taskVars, normVars, newsVars>>

(***************************************************************************)
(* Python values                                                           *)
(***************************************************************************)
None == <<>>

Some(x) == <<x>>

IsNone(o) == Len(o) = 0

Val(o) == o[1]

Seqs(S, n) == UNION { [1..m -> S] : m \in 0..n }

RECURSIVE Concat(_)
Concat(ss) == IF Len(ss) = 0 THEN <<>> ELSE Head(ss) \o Concat(Tail(ss))

(***************************************************************************)
(* str.replace(old, ""): the non-overlapping occurrences of old, found     *)
(* left to right, are removed in one pass.                                 *)
(***************************************************************************)
RECURSIVE Remove(_, _)
Remove(s, old) ==
    IF Len(s) < Len(old) THEN s
    ELSE IF SubSeq(s, 1, Len(old)) = old
         THEN Remove(SubSeq(s, Len(old) + 1, Len(s)), old)
         ELSE <<Head(s)>> \o Remove(Tail(s), old)

RECURSIVE LStrip(_)
LStrip(s) == IF Len(s) > 0 /\ Head(s) = " " THEN LStrip(Tail(s)) ELSE s

RECURSIVE RStrip(_)
RStrip(s) ==
    IF Len(s) > 0 /\ s[Len(s)] = " " THEN RStrip(SubSeq(s, 1, Len(s) - 1)) ELSE s

Strip(s) == LStrip(RStrip(s))

URN_UUID == <<"u", "r", "n", ":", "u", "u", "i", "d", ":">>

PATIENT_SLASH == <<"P", "a", "t", "i", "e", "n", "t", "/">>

\* A reference that is None or "" is the empty sequence.
normalize_id(r) ==
    IF Len(r) = 0 THEN <<>>
    ELSE Strip(Remove(Remove(r, URN_UUID), PATIENT_SLASH))

(***************************************************************************)
(* normalize_id on its own: references built from whole prefixes, pieces   *)
(* of prefixes, blanks and a bare identifier.                              *)
(***************************************************************************)
MaxFrags == 3

P1 == <<"P", "1">>

P2 == <<"P", "2">>

Fragments ==
    { URN_UUID, PATIENT_SLASH, P1, <<" ">>,
      <<"u", "r", "n", ":", "u", "u">>, <<"i", "d", ":">>,
      <<"P", "a", "t", "i">>, <<"e", "n", "t", "/">> }

References ==
    UNION { { Concat(fs) : fs \in [1..n -> Fragments] } : n \in 0..MaxFrags }

IdleRun ==
    /\ content = [isZip |-> FALSE, doc |-> <<>>]
    /\ validation_service = [up |-> FALSE, anomaly_model |-> FALSE]
    /\ master_bundle = [hasEntry |-> TRUE, entry |-> <<>>]
    /\ final_reports = <<>>
    /\ patients_map = [bound |-> FALSE]
    /\ progress = <<>>
    /\ result = [kind |-> "none"]
    /\ predictions = <<>>

IdleTask == IdleRun /\ response = [kind |-> "none"]

IdleNorm == ref = <<>> /\ once = <<>> /\ twice = <<>>

IdleNews == vitals = <<>> /\ news = [score |-> 0, risk |-> ""] /\ issues = <<>>

InitNorm ==
    /\ pc = "given"
    /\ ref \in References
    /\ once = <<>>
    /\ twice = <<>>
    /\ IdleTask
    /\ IdleNews

Normalize ==
    /\ pc = "given"
    /\ once' = normalize_id(ref)
    /\ pc' = "normalized"
    /\ UNCHANGED <<ref, twice, taskVars, newsVars>>

NormalizeAgain ==
    /\ pc = "normalized"
    /\ twice' = normalize_id(once)
    /\ pc' = "renormalized"
    /\ UNCHANGED <<ref, once, taskVars, newsVars>>

NextNorm == Normalize \/ NormalizeAgain

SpecNorm == InitNorm /\ [][NextNorm]_vars

HasInfix(s, t) ==
    \E i \in 1..(Len(s) - Len(t) + 1) : SubSeq(s, i, i + Len(t) - 1) = t

\* C7: normalizing a reference twice gives what normalizing it once gave,
\* and the normalized reference holds no 'urn:uuid:' or 'Patient/' any more.
C7_Idempotent ==
    pc = "renormalized" =>
        /\ twice = once
        /\ ~HasInfix(once, URN_UUID)
        /\ ~HasInfix(once, PATIENT_SLASH)

(***************************************************************************)
(* The vital keys and the early-warning score                              *)
(***************************************************************************)
VitalKeys ==
    {"sys_bp", "dia_bp", "hr", "resp", "temp", "o2", "bmi", "gluc", "pain", "gcs"}

LOINC_MAP ==
    [c \in {"8480-6", "8462-4", "8867-4", "9279-1", "8310-5", "2708-6",
            "59408-5", "39156-5", "2339-0", "2345-7", "72514-3", "38214-3",
            "9269-2"} |->
        CASE c = "8480-6" -> "sys_bp"
          [] c = "8462-4" -> "dia_bp"
          [] c = "8867-4" -> "hr"
          [] c = "9279-1" -> "resp"
          [] c = "8310-5" -> "temp"
          [] c \in {"2708-6", "59408-5"} -> "o2"
          [] c = "39156-5" -> "bmi"
          [] c \in {"2339-0", "2345-7"} -> "gluc"
          [] c \in {"72514-3", "38214-3"} -> "pain"
          [] c = "9269-2" -> "gcs"]

\* An absent reading read as zero (v.get(k) or 0).
GetOrZero(v, k) == IF k \in DOMAIN v /\ Len(v[k]) > 0 THEN v[k] ELSE <<0>>

\* dict.get(k): None when the key is missing, the stored value (which may be
\* None) otherwise.
Get(v, k) == IF k \in DOMAIN v THEN v[k] ELSE None

\* 1. Respiration rate
RespPoints(rr) ==
    IF IsNone(rr) THEN 0
    ELSE IF Val(rr) <= 8 \/ Val(rr) >= 25 THEN 3
    ELSE IF Val(rr) >= 21 THEN 2
    ELSE IF Val(rr) <= 11 THEN 1
    ELSE 0

\* 2. Oxygen saturation
O2Points(o2) ==
    IF IsNone(o2) THEN 0
    ELSE IF Val(o2) <= 91 THEN 3
    ELSE IF Val(o2) <= 93 THEN 2
    ELSE IF Val(o2) <= 95 THEN 1
    ELSE 0

\* The points of the two middle low-pressure bands exchanged.
SysPointsSwapped(sys) ==
    IF IsNone(sys) THEN 0
    ELSE IF Val(sys) <= 90 THEN 3
    ELSE IF Val(sys) <= 100 THEN 1
    ELSE IF Val(sys) <= 110 THEN 2
    ELSE IF Val(sys) >= 220 THEN 3
    ELSE 0

\* 3. Systolic blood pressure
SysPoints(sys) ==
    IF IsNone(sys) THEN 0
    ELSE IF Val(sys) <= 90 THEN 3
    ELSE IF Val(sys) <= 100 THEN 2
    ELSE IF Val(sys) <= 110 THEN 1
    ELSE IF Val(sys) >= 220 THEN 3
    ELSE 0

\* 4. Pulse
HrPoints(hr) ==
    IF IsNone(hr) THEN 0
    ELSE IF Val(hr) <= 40 \/ Val(hr) >= 131 THEN 3
    ELSE IF Val(hr) >= 111 THEN 2
    ELSE IF Val(hr) <= 50 \/ Val(hr) >= 91 THEN 1
    ELSE 0

\* 5. Consciousness
GcsPoints(gcs) ==
    IF IsNone(gcs) THEN 0
    ELSE IF Val(gcs) < 15 THEN 3
    ELSE 0

\* 6. Temperature, in tenths of a degree
TempPoints(temp) ==
    IF IsNone(temp) THEN 0
    ELSE IF Val(temp) <= 350 THEN 3
    ELSE IF Val(temp) >= 391 THEN 2
    ELSE IF Val(temp) <= 360 \/ Val(temp) >= 381 THEN 1
    ELSE 0

\* The thresholds tried lowest first.
RiskOfLowestFirst(score) ==
    IF score >= 1 THEN "Medium (Monitor)"
    ELSE IF score >= 5 THEN "High (Urgent Review)"
    ELSE IF score >= 7 THEN "CRITICAL (Emergency Response)"
    ELSE "Low"

RiskOf(score) ==
    IF score >= 7 THEN "CRITICAL (Emergency Response)"
    ELSE IF score >= 5 THEN "High (Urgent Review)"
    ELSE IF score >= 1 THEN "Medium (Monitor)"
    ELSE "Low"

calculate_news2(v) ==
    LET score == RespPoints(Get(v, "resp")) + O2Points(Get(v, "o2"))
                 + SysPoints(Get(v, "sys_bp")) + HrPoints(Get(v, "hr"))
                 + GcsPoints(Get(v, "gcs")) + TempPoints(Get(v, "temp"))
    IN  [score |-> score, risk |-> RiskOf(score)]

\* The alert raised from the Critical tier only.
NewsAlertFromCritical(v) ==
    LET n == calculate_news2(v)
    IN  IF n.score >= 7
        THEN << [title |-> "NEWS2 Score Alert", score |-> n.score, risk |-> n.risk,
                 severity |-> "High",
                 explanation |-> "Patient deterioration risk"] >>
        ELSE <<>>

NewsAlert(v) ==
    LET n == calculate_news2(v)
    IN  IF n.score >= 5
        THEN << [title |-> "NEWS2 Score Alert", score |-> n.score, risk |-> n.risk,
                 severity |-> "High",
                 explanation |-> "Patient deterioration risk"] >>
        ELSE <<>>

\* The two glucose thresholds taken as inclusive.
GlucoseRuleInclusive(v) ==
    LET g == Get(v, "gluc")
    IN  IF IsNone(g) THEN <<>>
        ELSE IF Val(g) <= 70
             THEN << [title |-> "Hypoglycemia", severity |-> "High",
                      explanation |-> "Blood glucose is dangerously low"] >>
        ELSE IF Val(g) >= 300
             THEN << [title |-> "Hyperglycemic Crisis", severity |-> "High",
                      explanation |-> "Blood glucose indicates ketoacidosis risk"] >>
        ELSE <<>>

GlucoseRule(v) ==
    LET g == Get(v, "gluc")
    IN  IF IsNone(g) THEN <<>>
        ELSE IF Val(g) < 70
             THEN << [title |-> "Hypoglycemia", severity |-> "High",
                      explanation |-> "Blood glucose is dangerously low"] >>
        ELSE IF Val(g) > 300
             THEN << [title |-> "Hyperglycemic Crisis", severity |-> "High",
                      explanation |-> "Blood glucose indicates ketoacidosis risk"] >>
        ELSE <<>>

PainRule(v) ==
    LET p == Get(v, "pain")
    IN  IF ~IsNone(p) /\ Val(p) >= 7
        THEN << [title |-> "Severe Pain", severity |-> "Medium",
                 explanation |-> "Pain score requires management"] >>
        ELSE <<>>

\* The patient argument is not read by the rules.
check_clinical_rules(v) == NewsAlert(v) \o GlucoseRule(v) \o PainRule(v)

(***************************************************************************)
(* calculate_news2 and check_clinical_rules on their own.  A snapshot is   *)
(* one of four base snapshots with up to two readings replaced; a reading  *)
(* lies within Span of a threshold of the code, or is zero, or is unset.   *)
(***************************************************************************)
Span == 1

Thresholds(k) ==
    CASE k = "resp" -> {8, 11, 21, 25}
      [] k = "o2" -> {91, 93, 95}
      [] k = "sys_bp" -> {90, 100, 110, 220}
      [] k = "hr" -> {40, 50, 91, 111, 131}
      [] k = "gcs" -> {15}
      [] k = "temp" -> {350, 360, 381, 391}
      [] k = "gluc" -> {70, 300}
      [] k = "pain" -> {7}
      [] k = "dia_bp" -> {80}
      [] k = "bmi" -> {25}

\* A glucose of 65 mg/dL, the reading of a hypoglycemic patient.
Examples(k) == IF k = "gluc" THEN {65} ELSE {}

Readings(k) ==
    {0} \cup Examples(k)
    \cup UNION { { t + d : d \in (0 - Span)..Span } : t \in Thresholds(k) }

Put(v, k, o) == [j \in (DOMAIN v) \cup {k} |-> IF j = k THEN o ELSE v[j]]

AllUnset == [k \in VitalKeys |-> None]

NoKeys == [k \in {} |-> None]

NormalSnapshot ==
    [k \in VitalKeys |->
        CASE k = "resp" -> Some(16)
          [] k = "o2" -> Some(98)
          [] k = "sys_bp" -> Some(120)
          [] k = "hr" -> Some(70)
          [] k = "gcs" -> Some(15)
          [] k = "temp" -> Some(370)
          [] k = "gluc" -> Some(90)
          [] k = "pain" -> Some(0)
          [] k = "dia_bp" -> Some(80)
          [] k = "bmi" -> Some(24)]

\* {resp:26, o2:90, sys_bp:85, hr:135, gcs:15, temp:37}
ExampleSnapshot ==
    [k \in {"resp", "o2", "sys_bp", "hr", "gcs", "temp"} |->
        CASE k = "resp" -> Some(26)
          [] k = "o2" -> Some(90)
          [] k = "sys_bp" -> Some(85)
          [] k = "hr" -> Some(135)
          [] k = "gcs" -> Some(15)
          [] k = "temp" -> Some(370)]

Changes ==
    {[key |-> k, val |-> None] : k \in VitalKeys \cup {"-"}}
    \cup UNION { {[key |-> k, val |-> Some(x)] : x \in Readings(k)} : k \in VitalKeys }

Change(v, c) == IF c.key = "-" THEN v ELSE Put(v, c.key, c.val)

Snapshots ==
    { Change(Change(b, c1), c2) :
        b \in {AllUnset, NoKeys, NormalSnapshot, ExampleSnapshot},
        c1 \in Changes, c2 \in Changes }

InitNews ==
    /\ pc = "snapshot"
    /\ vitals \in Snapshots
    /\ news = [score |-> 0, risk |-> ""]
    /\ issues = <<>>
    /\ IdleTask
    /\ IdleNorm

Score ==
    /\ pc = "snapshot"
    /\ news' = calculate_news2(vitals)
    /\ pc' = "scored"
    /\ UNCHANGED <<vitals, issues, taskVars, normVars>>

Rules ==
    /\ pc = "scored"
    /\ issues' = check_clinical_rules(vitals)
    /\ pc' = "checked"
    /\ UNCHANGED <<vitals, news, taskVars, normVars>>

NextNews == Score \/ Rules

SpecNews == InitNews /\ [][NextNews]_vars

Categories == {"resp", "o2", "sys_bp", "hr", "gcs", "temp"}

Scored == pc \in {"scored", "checked"}

\* A key that is missing from the snapshot or set to None.
Unset(v, k) == k \notin DOMAIN v \/ v[k] = None

\* What the category of key k adds to the score in the current state: the
\* score less the score of the same snapshot with k unset.
Contribution(k) == news.score - calculate_news2(Put(vitals, k, None)).score

\* Reading y lies at least as far as reading x from the band of k that scores
\* nothing (resp 12..20, o2 96 and up, sys_bp 111..219, hr 51..90, gcs 15 and
\* up, temp 36.1..38.0), on the same side of it.
Further(k, y, x) ==
    \/ /\ y <= x
       /\ CASE k = "resp" -> x <= 20
            [] k = "sys_bp" -> x <= 219
            [] k = "hr" -> x <= 90
            [] k = "temp" -> x <= 380
            [] OTHER -> TRUE
    \/ /\ y >= x
       /\ CASE k = "resp" -> x >= 12
            [] k = "o2" -> x >= 96
            [] k = "sys_bp" -> x >= 111
            [] k = "hr" -> x >= 51
            [] k = "gcs" -> x >= 15
            [] k = "temp" -> x >= 361

\* C8: the score is the sum of six per-category contributions, each in 0..3
\* (so the score is in 0..18), and moving one reading further from the band
\* of its category that scores nothing never lowers the score.
C8_SumOfMonotoneContributions ==
    Scored =>
        /\ \A k \in Categories : Contribution(k) \in 0..3
        /\ \A k \in VitalKeys \ Categories : Contribution(k) = 0
        /\ news.score = Contribution("resp") + Contribution("o2")
                        + Contribution("sys_bp") + Contribution("hr")
                        + Contribution("gcs") + Contribution("temp")
        /\ news.score \in 0..18
        /\ \A k \in Categories :
             ~Unset(vitals, k) =>
                \A y \in Readings(k) :
                    Further(k, y, vitals[k][1]) =>
                        calculate_news2(Put(vitals, k, <<y>>)).score >= news.score

C8_Witness ==
    /\ pc = "scored"
    /\ ~Unset(vitals, "sys_bp") /\ vitals["sys_bp"] = <<221>>
    /\ ~Unset(vitals, "temp") /\ vitals["temp"] = <<349>>
    /\ Unset(vitals, "resp")
    /\ news.score = 6

TierOf(score) ==
    CASE score >= 7 -> "CRITICAL (Emergency Response)"
      [] score \in 5..6 -> "High (Urgent Review)"
      [] score \in 1..4 -> "Medium (Monitor)"
      [] score = 0 -> "Low"

\* C9 as amended: the risk tier is Critical from 7, High at 5 and 6, Medium
\* from 1 to 4 and Low at 0, and the snapshot {resp:26, o2:90, sys_bp:85,
\* hr:135, gcs:15, temp:37} scores 12 (3+3+3+3+0+0) and is Critical.
C9_TierIsStepOfScore ==
    Scored =>
        /\ news.risk = TierOf(news.score)
        /\ vitals = ExampleSnapshot =>
              news = [score |-> 12, risk |-> "CRITICAL (Emergency Response)"]

\* C9 as stated: the same, with the example snapshot scoring 15.
C9_ExampleScores15 ==
    Scored =>
        /\ news.risk = TierOf(news.score)
        /\ vitals = ExampleSnapshot =>
              news = [score |-> 15, risk |-> "CRITICAL (Emergency Response)"]

C9_Witness ==
    /\ pc = "scored"
    /\ vitals = ExampleSnapshot
    /\ news.score = 12
    /\ news.risk = "CRITICAL (Emergency Response)"

PointsOf(k, o) ==
    CASE k = "resp" -> RespPoints(o)
      [] k = "o2" -> O2Points(o)
      [] k = "sys_bp" -> SysPoints(o)
      [] k = "hr" -> HrPoints(o)
      [] k = "gcs" -> GcsPoints(o)
      [] k = "temp" -> TempPoints(o)

\* The points of key k when k is set, nothing when it is unset.
PresentPoints(v, k) == IF Unset(v, k) THEN 0 ELSE PointsOf(k, v[k])

PresentScore(v) ==
    PresentPoints(v, "resp") + PresentPoints(v, "o2") + PresentPoints(v, "sys_bp")
    + PresentPoints(v, "hr") + PresentPoints(v, "gcs") + PresentPoints(v, "temp")

Titles(is) == {is[i].title : i \in 1..Len(is)}

\* C10: an unset key adds nothing to the score and triggers no Issue: the
\* score is the sum of the points of the set readings alone, the alert is
\* decided by that sum, a glucose or pain Issue needs its reading set, no
\* Issue reports an absence, and a snapshot with nothing set scores 0, is Low
\* and has no Issue.
C10_AbsenceIsNotZero ==
    pc = "checked" =>
        /\ news.score = PresentScore(vitals)
        /\ ("NEWS2 Score Alert" \in Titles(issues)) <=> (PresentScore(vitals) >= 5)
        /\ Unset(vitals, "gluc") =>
              Titles(issues) \cap {"Hypoglycemia", "Hyperglycemic Crisis"} = {}
        /\ Unset(vitals, "pain") => "Severe Pain" \notin Titles(issues)
        /\ Titles(issues) \subseteq
              {"NEWS2 Score Alert", "Hypoglycemia", "Hyperglycemic Crisis", "Severe Pain"}
        /\ (\A k \in VitalKeys : Unset(vitals, k)) =>
              /\ news = [score |-> 0, risk |-> "Low"]
              /\ issues = <<>>

C10_Witness ==
    /\ pc = "checked"
    /\ vitals = Put(AllUnset, "o2", <<90>>)
    /\ news.score = 3
    /\ issues = <<>>

NumTitled(is, title) == Len(SelectSeq(is, LAMBDA i : i.title = title))

\* C11: a glucose reading that is set gives exactly one Issue "Hypoglycemia"
\* of severity High when it is below 70, exactly one Issue "Hyperglycemic
\* Crisis" of severity High when it is above 300, neither from 70 to 300, and
\* never both; a glucose of 65 gives one hypoglycemia Issue and no
\* hyperglycemic one.
C11_OneMetabolicIssue ==
    pc = "checked" /\ ~Unset(vitals, "gluc") =>
        LET g == vitals["gluc"][1]
            hypo == NumTitled(issues, "Hypoglycemia")
            hyper == NumTitled(issues, "Hyperglycemic Crisis")
        IN  /\ hypo = IF g < 70 THEN 1 ELSE 0
            /\ hyper = IF g > 300 THEN 1 ELSE 0
            /\ hypo + hyper <= 1
            /\ g \in 70..300 => hypo + hyper = 0
            /\ g = 65 => hypo = 1 /\ hyper = 0
            /\ \A i \in 1..Len(issues) :
                  issues[i].title \in {"Hypoglycemia", "Hyperglycemic Crisis"}
                     => issues[i].severity = "High"

C11_Witness ==
    /\ pc = "checked"
    /\ vitals = Put(NormalSnapshot, "gluc", <<65>>)
    /\ Len(issues) = 1
    /\ issues[1].title = "Hypoglycemia"
    /\ issues[1].severity = "High"

\* C13: the rules emit exactly one early-warning Issue, of severity High and
\* carrying the score and the risk tier of calculate_news2, when the score is
\* 5 or more, which is exactly when the tier is High or Critical, and no
\* early-warning Issue otherwise.
C13_AlertFromScoreFive ==
    pc = "checked" =>
        LET alerts == SelectSeq(issues, LAMBDA i : i.title = "NEWS2 Score Alert")
        IN  /\ (news.score >= 5) <=>
                   news.risk \in {"High (Urgent Review)", "CRITICAL (Emergency Response)"}
            /\ Len(alerts) = IF news.score >= 5 THEN 1 ELSE 0
            /\ \A i \in 1..Len(alerts) :
                  /\ alerts[i].severity = "High"
                  /\ alerts[i].score = news.score
                  /\ alerts[i].risk = news.risk

\* A score of exactly 5 (systolic pressure 90, pulse 111), tier High.
C13_Witness ==
    /\ pc = "checked"
    /\ vitals = Put(Put(NormalSnapshot, "sys_bp", <<90>>), "hr", <<111>>)
    /\ news = [score |-> 5, risk |-> "High (Urgent Review)"]
    /\ Len(issues) = 1
    /\ issues[1].title = "NEWS2 Score Alert"
    /\ issues[1].score = 5

(***************************************************************************)
(* process_uploaded_file_task: the data                                    *)
(*                                                                         *)
(* A resource is a JSON object, of which the model keeps the fields the    *)
(* task reads: resourceType, id, birthDate (its year), subject.reference,  *)
(* code.coding[0].code, code.text / medicationCodeableConcept.text and     *)
(* valueQuantity.value.  A field that is absent is "" (a string field),    *)
(* <<>> (a reference) or None (a number).  A JSON value that is no object  *)
(* is [kind |-> "scalar"].                                                 *)
(***************************************************************************)
NoType == ""

NoCode == ""

NoText == ""

Object(rt, id, by, subj, code, text, val) ==
    [kind |-> "object", resourceType |-> rt, id |-> id, birthYear |-> by,
     reference |-> subj, code |-> code, text |-> text, value |-> val]

Scalar == [kind |-> "scalar"]

Patient(id, by) == Object("Patient", id, by, <<>>, NoCode, NoText, None)

Observation(subj, code, val) ==
    Object("Observation", <<>>, None, subj, code, NoText, val)

Condition(subj, text) == Object("Condition", <<>>, None, subj, NoCode, text, None)

MedicationRequest(subj, text) ==
    Object("MedicationRequest", <<>>, None, subj, NoCode, text, None)

\* A JSON object with none of the fields the task reads: {} or {"note": ...}.
Typeless == Object(NoType, <<>>, None, <<>>, NoCode, NoText, None)

\* What json.loads gives for a text that parses.
JObject(r) == [json |-> "object", resource |-> r]

JBundle(es) == [json |-> "bundle", hasEntry |-> TRUE, entry |-> es]

\* {"resourceType": "Bundle"} with no entry list
JBundleNoEntry == [json |-> "bundle", hasEntry |-> FALSE, entry |-> <<>>]

JScalar == [json |-> "scalar"]

Entry(r) == [resource |-> r]

\* A line of text: blank, not JSON, or the JSON value it holds.
Blank == [text |-> "blank"]

Bad == [text |-> "bad"]

Json(v) == [text |-> "json", value |-> v]

\* json.loads of a whole text: succeeds exactly when the text holds one JSON
\* value (blank lines around it are whitespace).
json_loads(doc) ==
    LET nb == SelectSeq(doc, LAMBDA l : l.text # "blank")
    IN  IF Len(nb) = 1 /\ nb[1].text = "json"
        THEN [ok |-> TRUE, value |-> nb[1].value]
        ELSE [ok |-> FALSE]

\* The dict that a parsed JSON value is when it is appended as a resource.
AsResource(v) ==
    CASE v.json = "object" -> v.resource
      [] v.json = "bundle" ->
            Object("Bundle", <<>>, None, <<>>, NoCode, NoText, None)
      [] v.json = "scalar" -> Scalar

EmptyBundle == [hasEntry |-> TRUE, entry |-> <<>>]

\* Only the '.json' names read.
NameIsJson(name) == name.ext = "json" /\ ~name.hidden

\* name.endswith('.json') or name.endswith('.ndjson'), and not
\* name.startswith('__')
NameIsRead(name) == name.ext \in {"json", "ndjson"} /\ ~name.hidden

\* One pass of the loop over zip_ref.namelist(): a member that does not parse,
\* or parses to something that has no .get, is passed over.
ReadMember(bundle, m) ==
    LET data == json_loads(m.doc)
    IN  IF ~NameIsRead(m.name) THEN bundle
        ELSE IF ~data.ok \/ data.value.json = "scalar" THEN bundle
        ELSE IF data.value.json = "bundle"
             THEN [bundle EXCEPT !.entry = @ \o data.value.entry]
        ELSE [bundle EXCEPT !.entry = Append(@, Entry(data.value.resource))]

RECURSIVE ReadMembers(_, _)
ReadMembers(bundle, ms) ==
    IF Len(ms) = 0 THEN bundle
    ELSE ReadMembers(ReadMember(bundle, Head(ms)), Tail(ms))

\* The newline-delimited fallback: every non-blank line that parses is a
\* resource, whatever it parses to; a line that does not parse is passed over.
RECURSIVE ReadLines(_, _)
ReadLines(bundle, ls) ==
    IF Len(ls) = 0 THEN bundle
    ELSE LET l == Head(ls)
             next == IF l.text = "json"
                     THEN [bundle EXCEPT
                             !.entry = Append(@, Entry(AsResource(l.value)))]
                     ELSE bundle
         IN  ReadLines(next, Tail(ls))

\* Step 1 of the task.  [raised |-> TRUE] is an exception that reaches the
\* handler of the task: BadZipFile for a corrupt archive, AttributeError for
\* a standalone document that is JSON but no object.
ParseResult(c) ==
    IF c.isZip
    THEN IF c.corrupt THEN [raised |-> TRUE, exception |-> "BadZipFile"]
         ELSE [raised |-> FALSE, bundle |-> ReadMembers(EmptyBundle, c.members)]
    ELSE LET data == json_loads(c.doc)
         IN  IF data.ok
             THEN CASE data.value.json = "scalar" ->
                         [raised |-> TRUE, exception |-> "AttributeError"]
                    [] data.value.json = "bundle" ->
                         [raised |-> FALSE,
                          bundle |-> [hasEntry |-> data.value.hasEntry,
                                      entry |-> data.value.entry]]
                    [] data.value.json = "object" ->
                         [raised |-> FALSE,
                          bundle |-> [EmptyBundle EXCEPT
                                        !.entry = <<Entry(data.value.resource)>>]]
             ELSE [raised |-> FALSE, bundle |-> ReadLines(EmptyBundle, c.doc)]

(***************************************************************************)
(* ValidationService._run_hl7_profile_validation                           *)
(*                                                                         *)
(* What requests.post does is the collaborator's choice:                   *)
(*   [kind |-> "ConnectionError"]  nothing listens on the port             *)
(*   [kind |-> "ConnectTimeout"]   a ConnectionError as well as a Timeout  *)
(*   [kind |-> "ReadTimeout"]      connected, no answer within the timeout *)
(*   [kind |-> "http", status, body]                                       *)
(* A body is text that may not be JSON; when it is, it holds outcomes,     *)
(* each a list of issues with a severity ("" when the field is missing)    *)
(* and diagnostics that do or do not say "validation success".             *)
(***************************************************************************)
\* str.capitalize() of the severities the collaborator reports
Capitalize(sev) ==
    CASE sev = "fatal" -> "Fatal"
      [] sev = "error" -> "Error"
      [] sev = "warning" -> "Warning"
      [] sev = "information" -> "Information"
      [] sev = "ERROR" -> "Error"
      [] sev = "note" -> "Note"
      [] OTHER -> sev

\* Every issue kept, the success messages too.
ParseIssueKeepingAll(i) ==
    LET severity == Capitalize(IF i.severity = "" THEN "error" ELSE i.severity)
    IN  << [severity |-> IF severity \in {"Error", "Fatal"} THEN "High" ELSE "Low",
            title |-> "Profile Violation",
            reported |-> severity,
            explanation |-> IF i.success THEN "validation success"
                            ELSE "No details provided."] >>

ParseIssue(i) ==
    LET severity == Capitalize(IF i.severity = "" THEN "error" ELSE i.severity)
    IN  IF severity \in {"Information", "Warning"} /\ i.success
        THEN <<>>
        ELSE << [severity |-> IF severity \in {"Error", "Fatal"} THEN "High" ELSE "Low",
                 title |-> "Profile Violation",
                 reported |-> severity,
                 explanation |-> IF i.success THEN "validation success"
                                 ELSE "No details provided."] >>

RECURSIVE ParseIssues(_)
ParseIssues(is) ==
    IF Len(is) = 0 THEN <<>> ELSE ParseIssue(Head(is)) \o ParseIssues(Tail(is))

RECURSIVE ParseOutcomes(_)
ParseOutcomes(os) ==
    IF Len(os) = 0 THEN <<>> ELSE ParseIssues(Head(os)) \o ParseOutcomes(Tail(os))

_parse_validator_output(body) ==
    IF ~body.parses THEN <<>> ELSE ParseOutcomes(body.outcomes)

\* Every failure of the request reported as the validator being offline.
AllFailuresOffline(r) ==
    IF r.kind = "http"
    THEN IF r.status = 200 THEN _parse_validator_output(r.body)
         ELSE << [severity |-> "High", title |-> "Validator Server Error",
                  explanation |-> "Java Server returned status"] >>
    ELSE << [severity |-> "High", title |-> "Validator Offline",
             explanation |-> "not reachable"] >>

_run_hl7_profile_validation(r) ==
    IF r.kind = "http"
    THEN IF r.status = 200 THEN _parse_validator_output(r.body)
         ELSE << [severity |-> "High", title |-> "Validator Server Error",
                  explanation |-> "Java Server returned status"] >>
    ELSE IF r.kind \in {"ConnectionError", "ConnectTimeout"}
         THEN << [severity |-> "High", title |-> "Validator Offline",
                  explanation |-> "not reachable"] >>
    ELSE << [severity |-> "Medium", title |-> "System Error",
             explanation |-> r.kind] >>

Body(parses, outcomes) == [parses |-> parses, outcomes |-> outcomes]

Reported(sev, success) == [severity |-> sev, success |-> success]

NoIssues == [kind |-> "http", status |-> 200, body |-> Body(TRUE, << <<>> >>)]

TransportFailures ==
    { [kind |-> "ConnectionError"], [kind |-> "ConnectTimeout"],
      [kind |-> "ReadTimeout"],
      [kind |-> "http", status |-> 500, body |-> Body(FALSE, <<>>)],
      [kind |-> "http", status |-> 404, body |-> Body(TRUE, << <<>> >>)] }

Answers ==
    { NoIssues,
      [kind |-> "http", status |-> 200, body |-> Body(FALSE, <<>>)],
      [kind |-> "http", status |-> 200,
       body |-> Body(TRUE, << <<Reported("error", FALSE)>> >>)],
      [kind |-> "http", status |-> 200,
       body |-> Body(TRUE, << <<Reported("information", TRUE)>>,
                              <<Reported("warning", FALSE), Reported("", FALSE)>> >>)] }

Responses == TransportFailures \cup Answers

(***************************************************************************)
(* _parse_validator_output on its own: a text that is not JSON, or up to   *)
(* MaxReported issues in one issue list or spread over two outcomes.       *)
(***************************************************************************)
MaxReported == 2

Severities == {"fatal", "error", "warning", "information", "note", "ERROR", ""}

ReportedIssues == { Reported(sev, success) : sev \in Severities, success \in BOOLEAN }

OutcomeLists ==
    { <<>> }
    \cup UNION { { <<is>> } \cup { <<SubSeq(is, 1, c), SubSeq(is, c + 1, Len(is))>> :
                                     c \in 0..Len(is) } :
                 is \in Seqs(ReportedIssues, MaxReported) }

Bodies == { Body(FALSE, <<>>) } \cup { Body(TRUE, os) : os \in OutcomeLists }

InitParse ==
    /\ pc = "answered"
    /\ response \in { [kind |-> "http", status |-> 200, body |-> b] : b \in Bodies }
    /\ issues = <<>>
    /\ vitals = <<>>
    /\ news = [score |-> 0, risk |-> ""]
    /\ IdleRun
    /\ IdleNorm

ParseOutput ==
    /\ pc = "answered"
    /\ issues' = _parse_validator_output(response.body)
    /\ pc' = "parsed"
    /\ UNCHANGED <<vitals, news, taskVars, normVars>>

NextParse == ParseOutput

SpecParse == InitParse /\ [][NextParse]_vars

\* The severity as reported, in lower case.
Lower(sev) == IF sev = "ERROR" THEN "error" ELSE sev

\* The issues of the response, in order, when it is JSON.
ReportedIn(body) == IF body.parses THEN Concat(body.outcomes) ELSE <<>>

\* A success message: severity information or warning, diagnostics that say
\* "validation success".
IsSuccessMessage(i) == Lower(i.severity) \in {"information", "warning"} /\ i.success

Kept(body) == SelectSeq(ReportedIn(body), LAMBDA i : ~IsSuccessMessage(i))

CurrentYear == 2026

\* the age of a patient with no birth date that parses
DefaultAge == 30

Unbound == [bound |-> FALSE]

EmptyMap == [bound |-> TRUE, order |-> <<>>, rec |-> <<>>]

\* patients_map[pid] = rec: a new key goes last, a key already there keeps
\* its place.
SetItem(pm, pid, r) ==
    [bound |-> TRUE,
     order |-> IF pid \in DOMAIN pm.rec THEN pm.order ELSE Append(pm.order, pid),
     rec |-> [q \in (DOMAIN pm.rec) \cup {pid} |-> IF q = pid THEN r ELSE pm.rec[q]]]

NewPatient(res) ==
    [age |-> IF IsNone(res.birthYear) THEN DefaultAge
             ELSE CurrentYear - Val(res.birthYear),
     vitals |-> [k \in VitalKeys |-> None],
     conditions |-> <<>>,
     medications |-> <<>>]

\* Pass A.  [ok |-> FALSE] is an exception that reaches the handler: an entry
\* whose resource is no JSON object has no .get.
RECURSIVE PassA(_, _)
PassA(es, pm) ==
    IF Len(es) = 0 THEN [ok |-> TRUE, map |-> pm]
    ELSE LET res == Head(es).resource
         IN  IF res.kind = "scalar" THEN [ok |-> FALSE, map |-> pm]
             ELSE IF res.resourceType = "Patient"
                  THEN PassA(Tail(es), SetItem(pm, normalize_id(res.id), NewPatient(res)))
             ELSE PassA(Tail(es), pm)

TextOr(t) == IF t = NoText THEN "Unknown" ELSE t

\* A reading kept once it is set: the first writer wins.
LinkFirstWriter(pm, res) ==
    LET subj == normalize_id(res.reference)
        p == pm.rec[subj]
    IN  IF subj \notin DOMAIN pm.rec THEN pm
        ELSE IF res.resourceType = "Condition"
             THEN SetItem(pm, subj,
                          [p EXCEPT !.conditions = Append(@, TextOr(res.text))])
        ELSE IF res.resourceType = "MedicationRequest"
             THEN SetItem(pm, subj,
                          [p EXCEPT !.medications = Append(@, TextOr(res.text))])
        ELSE IF /\ res.resourceType = "Observation"
                /\ res.code \in DOMAIN LOINC_MAP
                /\ ~IsNone(res.value)
                /\ IsNone(p.vitals[LOINC_MAP[res.code]])
             THEN SetItem(pm, subj,
                          [p EXCEPT !.vitals[LOINC_MAP[res.code]] = res.value])
        ELSE pm

Link(pm, res) ==
    LET subj == normalize_id(res.reference)
        p == pm.rec[subj]
    IN  IF subj \notin DOMAIN pm.rec THEN pm
        ELSE IF res.resourceType = "Condition"
             THEN SetItem(pm, subj,
                          [p EXCEPT !.conditions = Append(@, TextOr(res.text))])
        ELSE IF res.resourceType = "MedicationRequest"
             THEN SetItem(pm, subj,
                          [p EXCEPT !.medications = Append(@, TextOr(res.text))])
        ELSE IF /\ res.resourceType = "Observation"
                /\ res.code \in DOMAIN LOINC_MAP
                /\ ~IsNone(res.value)
             THEN SetItem(pm, subj,
                          [p EXCEPT !.vitals[LOINC_MAP[res.code]] = res.value])
        ELSE pm

\* Pass B, run after Pass A has gone through every entry.
RECURSIVE PassB(_, _)
PassB(es, pm) ==
    IF Len(es) = 0 THEN pm ELSE PassB(Tail(es), Link(pm, Head(es).resource))

\* Context linked while the patients are discovered, in one pass.
RECURSIVE OnePass(_, _)
OnePass(es, pm) ==
    IF Len(es) = 0 THEN [ok |-> TRUE, map |-> pm]
    ELSE LET res == Head(es).resource
         IN  IF res.kind = "scalar" THEN [ok |-> FALSE, map |-> pm]
             ELSE IF res.resourceType = "Patient"
                  THEN OnePass(Tail(es),
                               SetItem(pm, normalize_id(res.id), NewPatient(res)))
             ELSE OnePass(Tail(es), Link(pm, res))

ExtractInOnePass(es) == OnePass(es, [bound |-> TRUE, order |-> <<>>, rec |-> <<>>])

\* patients_map = {}, then Pass A, then Pass B
ExtractPatients(es) ==
    LET a == PassA(es, EmptyMap)
    IN  IF a.ok THEN [ok |-> TRUE, map |-> PassB(es, a.map)] ELSE a

\* safe_v and the vector of Pass C
FeatureVector(p) ==
    LET v == p.vitals
        safe_v == [k \in VitalKeys |-> IF IsNone(v[k]) THEN 0 ELSE Val(v[k])]
        sys == IF safe_v["sys_bp"] = 0 THEN 120 ELSE safe_v["sys_bp"]
        dia == IF safe_v["dia_bp"] = 0 THEN 80 ELSE safe_v["dia_bp"]
    IN  << p.age, sys, dia, safe_v["hr"], safe_v["resp"], safe_v["temp"],
           safe_v["o2"], safe_v["bmi"], safe_v["gluc"], safe_v["pain"],
           safe_v["gcs"] >>

PatientLabel(pid) == <<"Patient/", pid>>

RECURSIVE RuleReports(_, _)
RuleReports(pid, is) ==
    IF Len(is) = 0 THEN <<>>
    ELSE << [resource |-> PatientLabel(pid), issues |-> <<Head(is)>>] >>
         \o RuleReports(pid, Tail(is))

\* An anomaly Issue whenever the systolic pressure is there and the model
\* says outlier, whether or not the pulse is there.
AnomalyReportWithoutPulse(pid, p, service, verdict) ==
    IF /\ ~IsNone(p.vitals["sys_bp"])
       /\ service.anomaly_model
       /\ verdict[pid] = -1
    THEN << [resource |-> PatientLabel(pid),
             issues |-> << [severity |-> "High",
                            title |-> "Complex Clinical Anomaly",
                            explanation |-> "statistically abnormal"] >>] >>
    ELSE <<>>

AnomalyReport(pid, p, service, verdict) ==
    IF /\ ~IsNone(p.vitals["sys_bp"])
       /\ ~IsNone(p.vitals["hr"])
       /\ service.anomaly_model
       /\ verdict[pid] = -1
    THEN << [resource |-> PatientLabel(pid),
             issues |-> << [severity |-> "High",
                            title |-> "Complex Clinical Anomaly",
                            explanation |-> "statistically abnormal"] >>] >>
    ELSE <<>>

\* The calls anomaly_model.predict([vector]) of Pass C, in order: predict is
\* called for a patient whose sys_bp and hr are set, when the model is loaded.
RECURSIVE Predicted(_, _, _, _)
Predicted(order, rec, service, verdict) ==
    IF Len(order) = 0 THEN <<>>
    ELSE LET pid == Head(order)
             v == rec[pid].vitals
         IN  (IF /\ ~IsNone(v["sys_bp"])
                 /\ ~IsNone(v["hr"])
                 /\ service.anomaly_model
              THEN << [pid |-> pid, vector |-> FeatureVector(rec[pid]),
                       verdict |-> verdict[pid]] >>
              ELSE <<>>)
             \o Predicted(Tail(order), rec, service, verdict)

\* Pass C over patients_map.items()
RECURSIVE PassC(_, _, _, _)
PassC(order, rec, service, verdict) ==
    IF Len(order) = 0 THEN <<>>
    ELSE LET pid == Head(order)
         IN  RuleReports(pid, check_clinical_rules(rec[pid].vitals))
             \o AnomalyReport(pid, rec[pid], service, verdict)
             \o PassC(Tail(order), rec, service, verdict)

\* except Exception as e: one report on "System", its issue without a severity
SystemReport(e) ==
    [resource |-> <<"System">>,
     issues |-> << [id |-> 999, title |-> "Error", explanation |-> e] >>]

BatchLabel == <<"(Batch Check)">>

\* Progress counted in steps of twenty.
EventInTwenties(current, status) ==
    [current |-> (current \div 20) * 20, total |-> 100, status |-> status]

Event(current, status) == [current |-> current, total |-> 100, status |-> status]

(***************************************************************************)
(* process_uploaded_file_task, one action per stage between two progress   *)
(* events.  An exception inside the try block goes to the handler, which   *)
(* appends the System report; the task then goes on at step 4.             *)
(***************************************************************************)
Returned(summary, reports) ==
    [kind |-> "returned", summary |-> summary, reports |-> reports]

Raised(e) == [kind |-> "raised", exception |-> e]

\* What generate_ai_summary returns: the collaborator's text, or one of the
\* two placeholders.
Narratives == {"<narrative>", "**AI Error:**", "**AI Unavailable:**"}

Start ==
    /\ pc = "start"
    /\ progress' = Append(progress, Event(0, "Initializing Engine..."))
    /\ IF ~validation_service.up
       THEN /\ result' = Returned(<<>>, <<>>)
            /\ pc' = "done"
       ELSE /\ result' = result
            /\ pc' = "parse"
    /\ UNCHANGED <<content, validation_service, master_bundle, final_reports,
                   patients_map, response, predictions, normVars, newsVars>>

ParseFile ==
    /\ pc = "parse"
    /\ progress' = Append(progress, Event(10, "Parsing File Structure..."))
    /\ LET r == ParseResult(content)
       IN  IF r.raised
           THEN /\ final_reports' = Append(final_reports, SystemReport(r.exception))
                /\ master_bundle' = master_bundle
                /\ pc' = "summary"
           ELSE /\ final_reports' = final_reports
                /\ master_bundle' = r.bundle
                /\ pc' = "validate"
    /\ UNCHANGED <<content, validation_service, patients_map, response, result,
                   predictions, normVars, newsVars>>

BatchValidate ==
    /\ pc = "validate"
    /\ progress' = Append(progress, Event(30, "Running Java Validator..."))
    /\ IF ~master_bundle.hasEntry
       THEN /\ final_reports' = Append(final_reports, SystemReport("KeyError"))
            /\ pc' = "summary"
       ELSE /\ LET bundle_issues == _run_hl7_profile_validation(response)
               IN  final_reports' =
                     IF Len(master_bundle.entry) > 0 /\ Len(bundle_issues) > 0
                     THEN Append(final_reports,
                                 [resource |-> BatchLabel, issues |-> bundle_issues])
                     ELSE final_reports
            /\ pc' = "analyze"
    /\ UNCHANGED <<content, validation_service, master_bundle, patients_map,
                   response, result, predictions, normVars, newsVars>>

Analyze ==
    /\ pc = "analyze"
    /\ progress' = Append(progress, Event(60, "Running 11-Point Vitals Analysis..."))
    /\ LET x == ExtractPatients(master_bundle.entry)
       IN  /\ patients_map' = x.map
           /\ IF ~x.ok
              THEN /\ final_reports' =
                        Append(final_reports, SystemReport("AttributeError"))
                   /\ predictions' = predictions
              ELSE \E verdict \in [DOMAIN x.map.rec -> {1, -1}] :
                     /\ \A p, q \in DOMAIN x.map.rec :
                          FeatureVector(x.map.rec[p]) = FeatureVector(x.map.rec[q])
                             => verdict[p] = verdict[q]
                     /\ final_reports' =
                          final_reports
                          \o PassC(x.map.order, x.map.rec, validation_service, verdict)
                     /\ predictions' =
                          Predicted(x.map.order, x.map.rec, validation_service, verdict)
    /\ pc' = "summary"
    /\ UNCHANGED <<content, validation_service, master_bundle, response, result,
                   normVars, newsVars>>

Summarize ==
    /\ pc = "summary"
    /\ progress' = Append(progress, Event(80, "Generating AI Narrative..."))
    /\ IF ~patients_map.bound
       THEN result' = Raised("UnboundLocalError")
       ELSE \E text \in Narratives :
              LET ai_narrative == IF Len(patients_map.order) > 0 THEN text
                                  ELSE "No patient data found."
              IN  result' =
                    IF ~master_bundle.hasEntry THEN Raised("KeyError")
                    ELSE Returned([total_resources |-> Len(master_bundle.entry),
                                   ai_narrative |-> ai_narrative],
                                  final_reports)
    /\ pc' = "done"
    /\ UNCHANGED <<content, validation_service, master_bundle, final_reports,
                   patients_map, response, predictions, normVars, newsVars>>

Next == Start \/ ParseFile \/ BatchValidate \/ Analyze \/ Summarize

(***************************************************************************)
(* The uploads of Spec: standalone documents and archives of every shape,  *)
(* over three resources.                                                   *)
(***************************************************************************)
MaxLines == 2

MaxMembers == 2

PatientP1 == Patient(P1, Some(1990))

GlucoseP1 == Observation(URN_UUID \o P1, "2339-0", Some(65))

PatientWithGlucose == JBundle(<<Entry(PatientP1), Entry(GlucoseP1)>>)

JsonValues ==
    { JObject(PatientP1), JObject(GlucoseP1), JObject(Typeless), JScalar,
      JBundleNoEntry, JBundle(<<>>), PatientWithGlucose,
      JBundle(<<Entry(Typeless), Entry(PatientP1)>>) }

\* A document that is one JSON value, or up to MaxLines lines of
\* newline-delimited records.
Lines == {Blank, Bad, Json(JObject(PatientP1)), Json(JObject(GlucoseP1)),
          Json(JObject(Typeless)), Json(JScalar)}

Documents == { <<Json(v)>> : v \in JsonValues } \cup Seqs(Lines, MaxLines)

Name(ext, hidden) == [ext |-> ext, hidden |-> hidden]

Member(name, doc) == [name |-> name, doc |-> doc]

Members ==
    { Member(Name("json", FALSE), <<Json(JObject(PatientP1))>>),
      Member(Name("json", FALSE), <<Json(JObject(Typeless))>>),
      Member(Name("json", FALSE), <<Json(PatientWithGlucose)>>),
      Member(Name("json", FALSE), <<Json(JBundleNoEntry)>>),
      Member(Name("json", FALSE), <<Json(JScalar)>>),
      Member(Name("json", FALSE), <<Bad>>),
      Member(Name("ndjson", FALSE), <<Json(JObject(GlucoseP1))>>),
      Member(Name("ndjson", FALSE),
             <<Json(JObject(PatientP1)), Json(JObject(GlucoseP1))>>),
      Member(Name("ndjson", FALSE), <<Json(JObject(PatientP1)), Bad>>),
      Member(Name("json", TRUE), <<Json(JObject(PatientP1))>>),
      Member(Name("txt", FALSE), <<Json(JObject(PatientP1))>>) }

Standalone(doc) == [isZip |-> FALSE, doc |-> doc]

Archive(ms) == [isZip |-> TRUE, corrupt |-> FALSE, members |-> ms]

CorruptArchive == [isZip |-> TRUE, corrupt |-> TRUE, members |-> <<>>]

Uploads ==
    { Standalone(d) : d \in Documents }
    \cup { Archive(ms) : ms \in Seqs(Members, MaxMembers) }
    \cup { CorruptArchive }

Services ==
    { [up |-> FALSE, anomaly_model |-> FALSE],
      [up |-> TRUE, anomaly_model |-> FALSE],
      [up |-> TRUE, anomaly_model |-> TRUE] }

InitTask(uploads, services, responses) ==
    /\ pc = "start"
    /\ content \in uploads
    /\ validation_service \in services
    /\ response \in responses
    /\ master_bundle = EmptyBundle
    /\ final_reports = <<>>
    /\ patients_map = Unbound
    /\ progress = <<>>
    /\ result = [kind |-> "none"]
    /\ predictions = <<>>
    /\ IdleNorm
    /\ IdleNews

Init == InitTask(Uploads, Services, Responses)

Spec == Init /\ [][Next]_vars

(***************************************************************************)
(* The uploads of SpecExtract: one Bundle document of up to MaxEntries     *)
(* entries over patients, observations and other context.                  *)
(***************************************************************************)
MaxEntries == 3

Resources ==
    { PatientP1,
      Patient(<<>>, None),
      Observation(URN_UUID \o P1, "8480-6", Some(180)),
      Observation(PATIENT_SLASH \o P1, "8480-6", Some(85)),
      Observation(URN_UUID \o P1, "8480-6", None),
      Observation(URN_UUID \o P1, "8867-4", Some(135)),
      Observation(P1, "2708-6", Some(90)),
      Observation(P1, "59408-5", Some(97)),
      Observation(<<>>, "2339-0", Some(65)),
      Observation(P2, "8867-4", Some(40)),
      Condition(P1, "Hypertension"),
      MedicationRequest(<<>>, NoText),
      Typeless }

Bundles ==
    { Standalone(<<Json(JBundle(es))>>) :
        es \in Seqs({Entry(r) : r \in Resources}, MaxEntries) }

InitExtract ==
    InitTask(Bundles,
             {sv \in Services : sv.up},
             {NoIssues, [kind |-> "ConnectionError"]})

SpecExtract == InitExtract /\ [][Next]_vars

(***************************************************************************)
(* The uploads of SpecAnalyze: one Bundle document of two patients and up  *)
(* to MaxVitals observations of their vitals, a reading of 0 among them.   *)
(***************************************************************************)
MaxVitals == 3

PatientP2 == Patient(P2, None)

VitalObservations ==
    { Observation(P1, "8480-6", Some(180)),
      Observation(P1, "8480-6", Some(0)),
      Observation(P1, "8867-4", Some(135)),
      Observation(P1, "8462-4", Some(95)),
      Observation(P1, "8462-4", Some(0)),
      Observation(P1, "8310-5", Some(391)),
      Observation(P2, "8480-6", Some(120)),
      Observation(P2, "8867-4", Some(70)) }

Charts ==
    { Standalone(<<Json(JBundle(<<Entry(PatientP1), Entry(PatientP2)>> \o es))>>) :
        es \in Seqs({Entry(o) : o \in VitalObservations}, MaxVitals) }

InitAnalyze == InitTask(Charts, {sv \in Services : sv.up}, {NoIssues})

SpecAnalyze == InitAnalyze /\ [][Next]_vars

(***************************************************************************)
(* Claims about the whole task                                             *)
(***************************************************************************)
RECURSIVE IssuesOf(_)
IssuesOf(reports) ==
    IF Len(reports) = 0 THEN <<>>
    ELSE Head(reports).issues \o IssuesOf(Tail(reports))

\* The titles under which a malformed or type-less unit is reported
\* (api/endpoints.py reports a line or a file that is not JSON so).
StructuralTitles == {"Invalid JSON Object", "Invalid JSON in ZIP", "Missing resourceType"}

NumStructural(reports) ==
    Len(SelectSeq(IssuesOf(reports), LAMBDA i : i.title \in StructuralTitles))

NumSystem(reports) ==
    Len(SelectSeq(reports, LAMBDA r : r.resource = <<"System">>))

\* The documents of the upload that the task reads.
RECURSIVE DocsOf(_)
DocsOf(ms) ==
    IF Len(ms) = 0 THEN <<>>
    ELSE (IF NameIsRead(Head(ms).name) THEN <<Head(ms).doc>> ELSE <<>>)
         \o DocsOf(Tail(ms))

ReadDocs(c) ==
    IF ~c.isZip THEN <<c.doc>> ELSE IF c.corrupt THEN <<>> ELSE DocsOf(c.members)

\* The lines of the documents read that are not JSON, and those that are one
\* JSON object.
MalformedUnits(c) ==
    Len(SelectSeq(Concat(ReadDocs(c)), LAMBDA l : l.text = "bad"))

WellFormedRecords(c) ==
    Len(SelectSeq(Concat(ReadDocs(c)),
                  LAMBDA l : l.text = "json" /\ l.value.json = "object"))

\* The top-level container cannot be parsed.
Catastrophic(c) ==
    \/ c.isZip /\ c.corrupt
    \/ ~c.isZip /\ json_loads(c.doc).ok /\ json_loads(c.doc).value = JBundleNoEntry

\* C1: whatever the upload, the task ends by returning a summary and a list
\* of reports, with one system-level Issue when the top-level container
\* cannot be parsed; it never ends by raising.
C1_AlwaysReturnsAReport ==
    pc = "done" =>
        /\ result.kind = "returned"
        /\ Catastrophic(content) /\ validation_service.up =>
              NumSystem(result.reports) = 1

NumTypeless(es) ==
    Len(SelectSeq(es, LAMBDA e : /\ e.resource.kind = "object"
                                 /\ e.resource.resourceType = NoType))

\* C2: every resource of the canonical collection that has no resourceType
\* yields exactly one structural Issue in the report returned.
C2_TypelessResourceIsReported ==
    pc = "done" /\ result.kind = "returned" /\ master_bundle.hasEntry =>
        /\ NumStructural(result.reports) >= NumTypeless(master_bundle.entry)
        /\ MalformedUnits(content) = 0 =>
              NumStructural(result.reports) = NumTypeless(master_bundle.entry)

\* C3: every malformed unit of the upload is recorded as one structural
\* Issue, and every well-formed record of the same upload is ingested.
C3_MalformedUnitIsReported ==
    pc = "done" /\ result.kind = "returned" /\ validation_service.up =>
        /\ NumStructural(result.reports) >= MalformedUnits(content)
        /\ Len(master_bundle.entry) >= WellFormedRecords(content)

ValidationReports(reports) == SelectSeq(reports, LAMBDA r : r.resource = BatchLabel)

OtherReports(reports) == SelectSeq(reports, LAMBDA r : r.resource # BatchLabel)

\* The reports of step 3 for the canonical collection, under the verdicts
\* the anomaly model gives.
AnalysisReports(verdict) ==
    LET x == ExtractPatients(master_bundle.entry)
    IN  IF x.ok THEN PassC(x.map.order, x.map.rec, validation_service, verdict)
        ELSE <<SystemReport("AttributeError")>>

Verdicts == [DOMAIN ExtractPatients(master_bundle.entry).map.rec -> {1, -1}]

ValidatorFailed ==
    /\ pc = "done"
    /\ master_bundle.hasEntry
    /\ Len(master_bundle.entry) > 0
    /\ response \in TransportFailures

\* The run is not aborted, the validation layer reports one Issue, and the
\* other layers report what they report when the validator finds nothing.
DegradesToOneIssue ==
    /\ result.kind = "returned"
    /\ result.summary.total_resources = Len(master_bundle.entry)
    /\ Len(ValidationReports(result.reports)) = 1
    /\ Len(ValidationReports(result.reports)[1].issues) = 1
    /\ \E verdict \in Verdicts :
          OtherReports(result.reports) = AnalysisReports(verdict)

ValidatorIssue == ValidationReports(result.reports)[1].issues[1]

\* C4 as amended: when the validator cannot be reached (connection refused,
\* connect timeout) or answers with a non-2xx status, the run returns
\* with exactly one validation Issue, of severity High ("Validator Offline",
\* "Validator Server Error"), and the other layers' results intact; when the
\* request fails otherwise (a read timeout), the one Issue is "System Error"
\* of severity Medium.
C4_ValidatorFailureIsOneIssue ==
    ValidatorFailed =>
        /\ DegradesToOneIssue
        /\ <<ValidatorIssue.severity, ValidatorIssue.title>> =
             CASE response.kind \in {"ConnectionError", "ConnectTimeout"} ->
                    <<"High", "Validator Offline">>
               [] response.kind = "http" ->
                    <<"High", "Validator Server Error">>
               [] response.kind = "ReadTimeout" ->
                    <<"Medium", "System Error">>

\* C4 as stated: the one Issue is of severity High for every transport
\* failure, a timeout included.
C4_EveryFailureIsHigh ==
    ValidatorFailed =>
        /\ DegradesToOneIssue
        /\ ValidatorIssue.severity = "High"
        /\ ValidatorIssue.title \in {"Validator Offline", "Validator Server Error"}

\* A read timeout on a collection with a patient whose glucose triggers a rule.
C4_Witness ==
    /\ ValidatorFailed
    /\ response.kind = "ReadTimeout"
    /\ master_bundle.entry = <<Entry(PatientP1), Entry(GlucoseP1)>>
    /\ Len(result.reports) = 2
    /\ ValidatorIssue.severity = "Medium"
    /\ result.reports[2].issues[1].title = "Hypoglycemia"

\* Every member is one JSON object that is no Bundle, under a '.json' or
\* '.ndjson' name.
SingleRecords(c) ==
    /\ c.isZip
    /\ ~c.corrupt
    /\ \A i \in 1..Len(c.members) :
         /\ c.members[i].name.ext \in {"json", "ndjson"}
         /\ json_loads(c.members[i].doc).ok
         /\ json_loads(c.members[i].doc).value.json = "object"

NotHidden(ms) == Len(SelectSeq(ms, LAMBDA m : ~m.name.hidden))

Summarized ==
    pc = "done" /\ result.kind = "returned" /\ "total_resources" \in DOMAIN result.summary

\* C5 as amended: an archive of N single-record entries yields one canonical
\* entry for each entry whose name does not start with '__' (N when no name
\* does) when the validation service is there, total_resources says so, and
\* there is no structural Issue.
C5_OneEntryPerVisibleRecord ==
    SingleRecords(content) /\ validation_service.up =>
        /\ pc \in {"validate", "analyze", "summary", "done"} =>
              Len(master_bundle.entry) = NotHidden(content.members)
        /\ Summarized =>
              /\ result.summary.total_resources = NotHidden(content.members)
              /\ NumStructural(result.reports) = 0

\* C5 as stated: N entries in the archive, N canonical entries.
C5_OneEntryPerRecord ==
    SingleRecords(content) /\ Summarized =>
        /\ result.summary.total_resources = Len(content.members)
        /\ NumStructural(result.reports) = 0

C5_Witness ==
    /\ Summarized
    /\ SingleRecords(content)
    /\ Len(content.members) = 2
    /\ content.members[1].name = Name("ndjson", FALSE)
    /\ content.members[2].name = Name("json", TRUE)
    /\ result.summary.total_resources = 1

Checkpoints == {0, 10, 30, 60, 80, 100}

Currents == [i \in 1..Len(progress) |-> progress[i].current]

ProgressInOrder ==
    /\ pc # "start" => Len(progress) > 0 /\ progress[1].current = 0
    /\ \A i \in 1..Len(progress) :
          /\ progress[i].current \in Checkpoints
          /\ progress[i].total = 100
          /\ progress[i].status \in STRING
          /\ progress[i].status # ""
    /\ \A i, j \in 1..Len(progress) :
          i < j => progress[i].current < progress[j].current

\* A step leaves the events pushed so far as they are and pushes at most one.
PushOnly ==
    \/ progress' = progress
    \/ /\ Len(progress') = Len(progress) + 1
       /\ SubSeq(progress', 1, Len(progress)) = progress

\* C12: on every path of the task the events pushed through update_state
\* start at 0, have strictly increasing 'current' values among 0, 10, 30, 60,
\* 80 and 100, and carry total = 100 and a status string; events are only
\* pushed, never taken back or changed.
C12_ProgressOnlyIncreases == []ProgressInOrder /\ [][PushOnly]_vars

\* A run through every stage.
C12_Witness ==
    /\ pc = "done"
    /\ result.kind = "returned"
    /\ Currents = <<0, 10, 30, 60, 80>>

IsIssue(i) ==
    /\ {"severity", "title", "explanation"} \subseteq DOMAIN i
    /\ i.severity \in {"Low", "Medium", "High"}

ReturnedIssuesAreIssues ==
    pc = "done" /\ result.kind = "returned" =>
        /\ result.reports = final_reports
        /\ \A n \in 1..Len(IssuesOf(result.reports)) :
              IsIssue(IssuesOf(result.reports)[n])

\* A step leaves the reports appended so far, and their issues, as they are.
AppendOnly ==
    /\ Len(final_reports') >= Len(final_reports)
    /\ SubSeq(final_reports', 1, Len(final_reports)) = final_reports

\* C19: every Issue of a returned result carries a severity among Low,
\* Medium and High, a title and an explanation, on every path, and a report
\* once appended is neither changed nor removed.
C19_EveryIssueHasSeverity == []ReturnedIssuesAreIssues /\ [][AppendOnly]_vars

(***************************************************************************)
(* Claims about extraction                                                 *)
(***************************************************************************)
Extracted == pc \in {"summary", "done"} /\ patients_map.bound

ResourceAt(i) == master_bundle.entry[i].resource

\* Entry j is an Observation linked to patient pid that sets vital key k.
SetsVital(j, pid, k) ==
    /\ ResourceAt(j).resourceType = "Observation"
    /\ normalize_id(ResourceAt(j).reference) = pid
    /\ ResourceAt(j).code \in DOMAIN LOINC_MAP
    /\ LOINC_MAP[ResourceAt(j).code] = k
    /\ ~IsNone(ResourceAt(j).value)

\* C6: a Patient with identifier P and an Observation whose subject
\* normalizes to P, whose code maps to key k and which carries value x, the
\* only such observation for k, give vitals[k] = x in the record of P,
\* whether the Observation comes before or after the Patient.
C6_LinkedWhateverTheOrder ==
    Extracted =>
        \A i, j \in 1..Len(master_bundle.entry) : \A k \in VitalKeys :
            LET pid == normalize_id(ResourceAt(i).id)
            IN  /\ ResourceAt(i).resourceType = "Patient"
                /\ SetsVital(j, pid, k)
                /\ \A o \in 1..Len(master_bundle.entry) : SetsVital(o, pid, k) => o = j
                => /\ pid \in DOMAIN patients_map.rec
                   /\ patients_map.rec[pid].vitals[k] = ResourceAt(j).value

\* The Observation ('urn:uuid:P1', systolic pressure, 180) before its Patient.
C6_Witness ==
    /\ Extracted
    /\ Len(master_bundle.entry) = 2
    /\ ResourceAt(1) = Observation(URN_UUID \o P1, "8480-6", <<180>>)
    /\ ResourceAt(2) = PatientP1
    /\ patients_map.rec[P1].vitals["sys_bp"] = <<180>>

\* The entries that are Observations linked to patient pid, mapped to key k
\* and carrying a value.
Writers(pid, k) == {j \in 1..Len(master_bundle.entry) : SetsVital(j, pid, k)}

Last(S) == CHOOSE j \in S : \A i \in S : i <= j

\* C17: after extraction vitals[k] of a patient is the value of the last
\* Observation, in collection order, that is linked to the patient, whose
\* code maps to k and that carries a value, and is unset when there is none;
\* an Observation without a value changes nothing.
C17_LastWriterWins ==
    Extracted =>
        \A pid \in DOMAIN patients_map.rec : \A k \in VitalKeys :
            patients_map.rec[pid].vitals[k] =
                IF Writers(pid, k) = {} THEN None
                ELSE ResourceAt(Last(Writers(pid, k))).value

\* Systolic pressure 180, then 85 under another form of the reference, then
\* the Patient: 85 stays.
C17_Witness ==
    /\ Extracted
    /\ Len(master_bundle.entry) = 3
    /\ ResourceAt(1) = Observation(URN_UUID \o P1, "8480-6", <<180>>)
    /\ ResourceAt(2) = Observation(PATIENT_SLASH \o P1, "8480-6", <<85>>)
    /\ ResourceAt(3) = PatientP1
    /\ patients_map.rec[P1].vitals["sys_bp"] = <<85>>

\* Entry j is a context resource without an owner: its subject reference is
\* absent, or normalizes to the identifier of no Patient of the collection.
IsContext(r) == r.resourceType \in {"Condition", "MedicationRequest", "Observation"}

PatientIds ==
    { normalize_id(ResourceAt(i).id) :
        i \in {n \in 1..Len(master_bundle.entry) : ResourceAt(n).resourceType = "Patient"} }

Ownerless(r) ==
    /\ IsContext(r)
    /\ \/ r.reference = <<>>
       \/ normalize_id(r.reference) \notin PatientIds

Owned == SelectSeq(master_bundle.entry, LAMBDA e : ~Ownerless(e.resource))

\* C18: the context resources without an owner change no patient record and
\* cause no Issue: records and reports are those of the collection without
\* them, and the run returns.
C18_OwnerlessChangesNothing ==
    Extracted =>
        /\ patients_map = ExtractPatients(Owned).map
        /\ NumSystem(final_reports) = 0
        /\ pc = "done" => result.kind = "returned"

(***************************************************************************)
(* Claims about the anomaly model                                          *)
(***************************************************************************)
Analyzed == pc \in {"summary", "done"} /\ patients_map.bound /\ NumSystem(final_reports) = 0

CorePresent(pid) ==
    /\ ~IsNone(patients_map.rec[pid].vitals["sys_bp"])
    /\ ~IsNone(patients_map.rec[pid].vitals["hr"])

CallsFor(pid) == SelectSeq(predictions, LAMBDA c : c.pid = pid)

IsAnomaly(i) == i.title = "Complex Clinical Anomaly"

AnomaliesFor(pid) ==
    SelectSeq(IssuesOf(SelectSeq(final_reports,
                                 LAMBDA r : r.resource = PatientLabel(pid))),
              IsAnomaly)

\* The reports that hold no anomaly Issue.
WithoutAnomalies(reports) ==
    SelectSeq(reports, LAMBDA r : Len(SelectSeq(r.issues, IsAnomaly)) = 0)

\* What Pass C reports for the patients without the anomaly model.
RuleReportsAlone ==
    PassC(patients_map.order, patients_map.rec,
          [up |-> TRUE, anomaly_model |-> FALSE],
          [q \in DOMAIN patients_map.rec |-> 1])

\* C14: a patient gets the Issue "Complex Clinical Anomaly", of severity
\* High, exactly when its sys_bp and hr are both set, the anomaly model is
\* loaded and the model's verdict on its vector is -1; when the model is not
\* loaded or one of the two is unset the model is not called, there is no
\* anomaly Issue and no error Issue, and the rule Issues and the result are
\* what they are without the model.
C14_AnomalyOnlyOnVerdict ==
    Analyzed =>
        /\ \A pid \in DOMAIN patients_map.rec :
              LET called == CorePresent(pid) /\ validation_service.anomaly_model
              IN  /\ Len(CallsFor(pid)) = IF called THEN 1 ELSE 0
                  /\ Len(AnomaliesFor(pid)) =
                        IF called /\ CallsFor(pid)[1].verdict = -1 THEN 1 ELSE 0
                  /\ \A i \in 1..Len(AnomaliesFor(pid)) :
                        AnomaliesFor(pid)[i].severity = "High"
        /\ OtherReports(WithoutAnomalies(final_reports)) = RuleReportsAlone
        /\ ~validation_service.anomaly_model =>
              predictions = <<>> /\ OtherReports(final_reports) = RuleReportsAlone
        /\ pc = "done" => result.kind = "returned" /\ result.reports = final_reports

\* P1 with systolic pressure 180 and pulse 135 is an outlier to the model;
\* P2, with a systolic pressure and no pulse, is not shown to it.
C14_Witness ==
    /\ Analyzed
    /\ pc = "done"
    /\ validation_service.anomaly_model
    /\ patients_map.rec[P1].vitals["sys_bp"] = <<180>>
    /\ patients_map.rec[P1].vitals["hr"] = <<135>>
    /\ patients_map.rec[P2].vitals["sys_bp"] = <<120>>
    /\ Len(predictions) = 1
    /\ predictions[1].verdict = -1
    /\ Len(AnomaliesFor(P1)) = 1
    /\ Len(AnomaliesFor(P2)) = 0

\* The recorded value of a vital that is set, the default d of one that is not.
RecordedOr(o, d) == IF IsNone(o) THEN d ELSE Val(o)

\* C15: the vector shown to the model is [age, sys_bp, dia_bp, hr, resp,
\* temp, o2, bmi, gluc, pain, gcs], each vital that is set at its recorded
\* value, a default only where the vital is unset (120 for sys_bp, 80 for
\* dia_bp, 0 for the others), and the vitals of the patient record stay what
\* extraction made them.
C15_VectorCarriesRecordedValues ==
    Analyzed =>
        /\ \A n \in 1..Len(predictions) :
              LET p == patients_map.rec[predictions[n].pid]
                  v == p.vitals
              IN  predictions[n].vector =
                    << p.age, RecordedOr(v["sys_bp"], 120), RecordedOr(v["dia_bp"], 80),
                       RecordedOr(v["hr"], 0), RecordedOr(v["resp"], 0),
                       RecordedOr(v["temp"], 0), RecordedOr(v["o2"], 0),
                       RecordedOr(v["bmi"], 0), RecordedOr(v["gluc"], 0),
                       RecordedOr(v["pain"], 0), RecordedOr(v["gcs"], 0) >>
        /\ patients_map = ExtractPatients(master_bundle.entry).map

====
